---------------------------- MODULE Spec2Model ----------------------------
(* A model of app.py, the Streamlit controller of an 8x8 LED matrix on a   *)
(* serial line: the frame encoder and sender (send_frame), the text        *)
(* scroller (text_to_frames), the image threshold (image_to_8x8), the      *)
(* 16x16 -> 8x8 block-OR (downsample_16_to_8), the keyed connection store  *)
(* (get_serial) and the connection handling of main().  Matrices are       *)
(* functions over 0-based indices, as in the source; a bytearray is a      *)
(* sequence of integers in 0..255.                                         *)
EXTENDS Integers, Sequences, FiniteSets, Bags, TLC

VARIABLES
    ser,        \* st.session_state.ser: None or the id of a Serial object
    connected,  \* st.session_state.connected
    port,       \* st.session_state.port
    baud,       \* st.session_state.baud
    serials,    \* serials[i]: what became of the i-th serial.Serial(...):
                \* "failed" (it raised), or the object is "open", or "closed"
                \* by the close() of line 196 (what the interpreter does to
                \* an object nothing refers to any more is not followed)
    unclosed,   \* ids of objects whose close() raised (swallowed at line 197)
    orphaned,   \* ids of the open objects that line 210 dropped from the session
    waiting,    \* the runs of main() that are in the sleep of line 207: the id
                \* of the object each has opened, the port and baud it found
                \* stored (before) and those it stored (chosen)
    keyed,      \* st.session_state["ser_{port}_{baud}"]: << port, baud >> to the
                \* id of the object get_serial stored under that key
    unkeyed,    \* ids of the serial.Serial(...) calls of get_serial that raised
    parked,     \* the calls of get_serial that are in the sleep of line 19:
                \* the key each has stored under and the id of its object
    scrolls,    \* the runs of Send Text that are in the loop of lines 233-235,
                \* a bag: per run what it read at lines 214-217 (gate), its
                \* frames (line 232), the number of frames the loop has
                \* handled (idx), per handled frame what ser.write got and
                \* whether it returned (attempts), and the number of st.error
                \* reports (errors)
    input,      \* the arguments of the function under study
    call        \* the most recent call of a function and what it did

vars == << ser, connected, port, baud, serials, unclosed, orphaned, waiting,
           keyed, unkeyed, parked, scrolls, input, call >>

session == << ser, connected, port, baud, serials, unclosed, orphaned, waiting,
             keyed, unkeyed, parked >>
scroll  == << scrolls >>

-----------------------------------------------------------------------------
(* Bounds of the model. *)

\* most lit cells in an 8x8 input of send_frame (and of its complement)
MaxLit == 1
\* a wrong-shaped input has between 8 - DimSlack and 8 + DimSlack rows and columns
DimSlack == 1

\* most lit cells in a 16x16 input of downsample_16_to_8 (and of its complement)
MaxLit16 == 1
\* most cells of a white image that hold another intensity
MaxInkCells == 1
\* widest measured text, in pixels (the strip is 8 pixels wider)
MaxTextWidth == 2
\* most columns of a strip that are not blank
MaxInkColumns == 2

\* most runs of Send Text that are in their loop at a time
MaxScrolls == 2

\* most serial.Serial(...) calls, of Connect / Reconnect and of get_serial
MaxAttempts == 2

(* Program constants. *)

\* python's None, the value of session_state.ser when nothing is connected
None == 0
\* the side of the device matrix (the shape test of send_frame)
MatrixSize == 8
\* the sync byte 0xAA that starts a frame
Header == 170

\* the side of the drawing grid that downsample_16_to_8 reduces
GridSize == 16
\* the height text_to_frames scales the strip to (its default, which main uses)
TextHeight == 8
\* the blank pixels added after the text, and the width of the sliding window
Padding == 8
\* a strip pixel is lit when its intensity is over this
Threshold == 128
\* the intensity of white, by which image_to_8x8 divides
White == 255
\* image_to_8x8 lights a cell whose intensity is under 0.7 = InkTenths / 10
InkTenths == 7

-----------------------------------------------------------------------------
(* Inputs: matrices. *)

Cells(rows, cols) == (0 .. rows - 1) \X (0 .. cols - 1)

\* the subsets of S with at most k elements
RECURSIVE SubsetsUpTo(_, _)
SubsetsUpTo(S, k) ==
    IF k = 0 THEN { {} }
    ELSE LET smaller == SubsetsUpTo(S, k - 1)
         IN  smaller \cup { T \cup {x} : T \in smaller, x \in S }

\* the rows x cols matrix whose cells in lit hold v and whose other cells hold 1 - v
MatOf(rows, cols, lit, v) ==
    [r \in 0 .. rows - 1 |->
        [c \in 0 .. cols - 1 |-> IF <<r, c>> \in lit THEN v ELSE 1 - v]]

\* 8x8 binary matrices: at most MaxLit cells lit, or at most MaxLit cells unlit
Matrices8 ==
    { MatOf(MatrixSize, MatrixSize, lit, v) :
        lit \in SubsetsUpTo(Cells(MatrixSize, MatrixSize), MaxLit), v \in {0, 1} }

\* 8x8 binary matrices blank but for one row, which holds any of the 256 patterns
RowMatrices8 ==
    { [r \in 0 .. MatrixSize - 1 |->
          IF r = r0 THEN row ELSE [c \in 0 .. MatrixSize - 1 |-> 0]] :
        r0 \in 0 .. MatrixSize - 1, row \in [0 .. MatrixSize - 1 -> {0, 1}] }

Dims == (MatrixSize - DimSlack) .. (MatrixSize + DimSlack)

\* binary matrices of another shape: blank, full, or differing in cell (0,0)
MisshapenMatrices ==
    { MatOf(rows, cols, lit, v) :
        rows \in Dims, cols \in Dims, lit \in { {}, {<<0, 0>>} }, v \in {0, 1} }
    \ { MatOf(MatrixSize, MatrixSize, lit, v) : lit \in { {}, {<<0, 0>>} }, v \in {0, 1} }

\* numpy's matrix.shape for a rectangular two-dimensional input
Shape(m) ==
    LET rows == Cardinality(DOMAIN m)
    IN  << rows, IF rows = 0 THEN 0 ELSE Cardinality(DOMAIN m[0]) >>

-----------------------------------------------------------------------------
(* send_frame, lines 25-49. *)

\* (faulty variant of BitOr) byte = 1 << bit_index, the bits set before forgotten
OverwriteBits(a, b, i) == b

\* a | b on bytes, bit by bit from bit 0 to bit 7
RECURSIVE BitOr(_, _, _)
BitOr(a, b, i) ==
    IF i = 8 THEN 0
    ELSE (IF (a % 2 = 1) \/ (b % 2 = 1) THEN 2 ^ i ELSE 0)
         + BitOr(a \div 2, b \div 2, i + 1)

\* (faulty variant of RowByteFrom) bit_index = c: the row is not mirrored
RECURSIVE UnflippedRowByteFrom(_, _, _)
UnflippedRowByteFrom(row, c, byte) ==
    IF c = MatrixSize THEN byte
    ELSE UnflippedRowByteFrom(row, c + 1,
            IF row[c] # 0 THEN BitOr(byte, 2 ^ c, 0) ELSE byte)

\* the inner loop of lines 39-43 from column c on, byte being the value so far
RECURSIVE RowByteFrom(_, _, _)
RowByteFrom(row, c, byte) ==
    IF c = MatrixSize THEN byte
    ELSE RowByteFrom(row, c + 1,
            IF row[c] # 0 THEN BitOr(byte, 2 ^ (7 - c), 0) ELSE byte)

RowByte(row) == RowByteFrom(row, 0, 0)

\* the outer loop of lines 37-44 from row r on, data being the bytearray so far
RECURSIVE AppendRows(_, _, _)
AppendRows(matrix, r, data) ==
    IF r = MatrixSize THEN data
    ELSE AppendRows(matrix, r + 1, Append(data, RowByte(matrix[r])))

\* lines 34-44: the bytearray handed to ser.write
Encode(matrix) == AppendRows(matrix, 0, << Header >>)

\* (faulty variant of WriteCalls) the header written first, then the rows
SplitWriteCalls(matrix) == << << Header >>, Tail(Encode(matrix)) >>

\* the calls of ser.write that send_frame makes for an 8x8 matrix (line 47)
WriteCalls(matrix) == << Encode(matrix) >>

\* (faulty variant of SerialUsable) is_open is not looked at
NotNone(s, is_open) == s # None

\* whether the guard of line 26 lets the call through
SerialUsable(s, is_open) == s # None /\ is_open

\* (faulty variant of ShapeAccepted) a larger matrix is let through, to be truncated
LargeAccepted(matrix) ==
    Shape(matrix)[1] >= MatrixSize /\ Shape(matrix)[2] >= MatrixSize

\* whether the shape test of line 31 accepts the matrix
ShapeAccepted(matrix) == Shape(matrix) = << MatrixSize, MatrixSize >>

\* (faulty variant of OnWriteError) no except clause: the write's exception goes on up
WriteErrorRaised == [raised |-> "SerialException", errors |-> 0]

\* what the except clause of lines 48-49 does with a failed write: the
\* exception that leaves send_frame and the number of st.error reports
OnWriteError == [raised |-> "none", errors |-> 1]

\* send_frame(ser, matrix), the transport's write raising iff writeRaises:
\*   raised  the exception that leaves send_frame ("none": it returns),
\*   writes  the arguments of its calls of ser.write, in order,
\*   sent    whether a write returned without raising,
\*   errors  the number of st.error reports it makes
send_frame(s, is_open, matrix, writeRaises) ==
    IF ~SerialUsable(s, is_open)
    THEN [raised |-> "none", writes |-> << >>, sent |-> FALSE, errors |-> 1]
    ELSE IF ~ShapeAccepted(matrix)
    THEN [raised |-> "ValueError", writes |-> << >>, sent |-> FALSE, errors |-> 0]
    ELSE IF writeRaises
    THEN [raised |-> OnWriteError.raised, writes |-> WriteCalls(matrix),
          sent |-> FALSE, errors |-> OnWriteError.errors]
    ELSE [raised |-> "none", writes |-> WriteCalls(matrix), sent |-> TRUE,
          errors |-> 0]

-----------------------------------------------------------------------------
(* States shared by the specifications of the single functions: the        *)
(* session as main() first sets it up (lines 161-168), nothing scrolling.  *)

NoCall == [fn |-> "none"]

SessionInit ==
    /\ ser = None
    /\ connected = FALSE
    /\ port = "COM12"
    /\ baud = 115200
    /\ serials = << >>
    /\ unclosed = {}
    /\ orphaned = {}
    /\ waiting = {}
    /\ keyed = << >>
    /\ unkeyed = {}
    /\ parked = {}

ScrollInit == scrolls = EmptyBag

-----------------------------------------------------------------------------
(* SpecSendFrame: send_frame called on every handle state and every matrix *)
(* of the input families.  A handle argument is None, a closed Serial      *)
(* object or an open one.                                                  *)

SendFrameInputs ==
    [ ser : {None, 1}, is_open : BOOLEAN, matrix : Matrices8 \cup RowMatrices8 \cup MisshapenMatrices ]

InitSendFrame ==
    /\ SessionInit
    /\ ScrollInit
    /\ input \in { i \in SendFrameInputs : i.ser = None => ~i.is_open }
    /\ call = NoCall

CallSendFrame ==
    /\ call = NoCall
    /\ \E writeRaises \in BOOLEAN :
          call' = [fn |-> "send_frame", args |-> input,
                   out |-> send_frame(input.ser, input.is_open, input.matrix,
                                      writeRaises)]
    /\ UNCHANGED << session, scroll, input >>

NextSendFrame == CallSendFrame

SpecSendFrame == InitSendFrame /\ [][NextSendFrame]_vars


-----------------------------------------------------------------------------
(* downsample_16_to_8, lines 141-151. *)

\* 16x16 binary matrices: at most k cells lit, or at most k unlit
Matrices16(k) ==
    { MatOf(GridSize, GridSize, lit, v) :
        lit \in SubsetsUpTo(Cells(GridSize, GridSize), k), v \in {0, 1} }

\* 16x16 binary matrices blank but for one 2x2 block, which holds any pattern
BlockMatrices16 ==
    { MatOf(GridSize, GridSize,
            { << 2 * r0 + d[1], 2 * c0 + d[2] >> : d \in pattern }, 1) :
        r0 \in 0 .. MatrixSize - 1, c0 \in 0 .. MatrixSize - 1,
        pattern \in SUBSET ((0 .. 1) \X (0 .. 1)) }

\* (faulty variant of BlockSum) the block taken one cell short: mat16[2r:2r+1, 2c:2c+2]
TopRowSum(mat16, r, c) == mat16[r * 2][c * 2] + mat16[r * 2][c * 2 + 1]

\* block.sum() of block = mat16[r*2:(r+1)*2, c*2:(c+1)*2], lines 149-150
BlockSum(mat16, r, c) ==
    LET RECURSIVE Sum(_, _)
        Sum(i, j) ==
            IF i = (r + 1) * 2 THEN 0
            ELSE IF j = (c + 1) * 2 THEN Sum(i + 1, c * 2)
            ELSE mat16[i][j] + Sum(i, j + 1)
    IN  Sum(r * 2, c * 2)

\* downsample_16_to_8(mat16)
downsample_16_to_8(mat16) ==
    [r \in 0 .. MatrixSize - 1 |->
        [c \in 0 .. MatrixSize - 1 |->
            IF BlockSum(mat16, r, c) > 0 THEN 1 ELSE 0]]

InitDownsample ==
    /\ SessionInit
    /\ ScrollInit
    /\ input \in [ mat16 : Matrices16(MaxLit16) \cup BlockMatrices16 ]
    /\ call = NoCall

CallDownsample ==
    /\ call = NoCall
    /\ call' = [fn |-> "downsample_16_to_8", args |-> input,
                out |-> downsample_16_to_8(input.mat16)]
    /\ UNCHANGED << session, scroll, input >>

NextDownsample == CallDownsample

SpecDownsample == InitDownsample /\ [][NextDownsample]_vars

-----------------------------------------------------------------------------
(* image_to_8x8, lines 104-122.  The conversion to grayscale and the       *)
(* bilinear resize are the imaging library's; the input here is the 8x8    *)
(* grayscale image they give, a matrix of intensities in 0..255.           *)

\* the 8x8 image that holds ink at the cells in cells and paper elsewhere
GrayOf(cells, ink, paper) ==
    [r \in 0 .. MatrixSize - 1 |->
        [c \in 0 .. MatrixSize - 1 |-> IF <<r, c>> \in cells THEN ink ELSE paper]]

\* images of one intensity, and white images with at most MaxInkCells cells
\* of one other intensity, near the threshold or far from it
GrayImages ==
    { GrayOf({}, White, v) : v \in 0 .. White }
    \cup { GrayOf(cells, ink, White) :
             cells \in SubsetsUpTo(Cells(MatrixSize, MatrixSize), MaxInkCells),
             ink \in {0, 1, 177, 178, 179, 180, 254} }

\* (faulty variant of IsInk) the comparison turned round: light cells are lit
IsPaper(v) == v * 10 > InkTenths * White

\* lines 115-120 for one pixel: v / 255.0 < 0.7, both sides multiplied by 2550
\* (no v in 0..255 is within float32 rounding of the threshold: 178/255 =
\* 0.698..., 179/255 = 0.7019...)
IsInk(v) == v * 10 < InkTenths * White

\* image_to_8x8 from the resized grayscale array on
image_to_8x8(arr) ==
    [r \in 0 .. MatrixSize - 1 |->
        [c \in 0 .. MatrixSize - 1 |-> IF IsInk(arr[r][c]) THEN 1 ELSE 0]]

InitImage ==
    /\ SessionInit
    /\ ScrollInit
    /\ input \in [ arr : GrayImages ]
    /\ call = NoCall

CallImage ==
    /\ call = NoCall
    /\ call' = [fn |-> "image_to_8x8", args |-> input,
                out |-> image_to_8x8(input.arr)]
    /\ UNCHANGED << session, scroll, input >>

NextImage == CallImage

SpecImage == InitImage /\ [][NextImage]_vars

-----------------------------------------------------------------------------
(* text_to_frames, lines 53-86.  Measuring, drawing and resizing the text  *)
(* are the imaging library's; the input here is the text and the strip the *)
(* resize of line 74 gives: strip[x][y] is the intensity of pixel (x, y),  *)
(* x in 0 .. w + 7 for a measured text width w, y in 0 .. height - 1.      *)

\* columns of a strip: blank, a column over the threshold, and one around it
BlankColumn == [y \in 0 .. TextHeight - 1 |-> 0]
InkColumns ==
    { [y \in 0 .. TextHeight - 1 |-> IF y % 2 = 0 THEN 255 ELSE 0],
      [y \in 0 .. TextHeight - 1 |-> << 0, 127, 128, 129, 130, 254, 255, 1 >>[y + 1]] }

\* strips of width w + 8, w <= MaxTextWidth, with at most MaxInkColumns columns
\* that are not blank
Strips ==
    UNION { { [x \in 0 .. w + Padding - 1 |->
                 IF x \in cols THEN column ELSE BlankColumn] :
              cols \in SubsetsUpTo(0 .. w + Padding - 1, MaxInkColumns),
              column \in InkColumns } :
            w \in 0 .. MaxTextWidth }

\* img.width
Width(strip) == Cardinality(DOMAIN strip)

\* (faulty variant of WindowCount) range(0, img.width - 8): the last window is lost
ShortWindowCount(strip) ==
    IF Width(strip) - Padding > 0 THEN Width(strip) - Padding ELSE 0

\* len(range(0, img.width - 8 + 1)), line 78
WindowCount(strip) ==
    IF Width(strip) - Padding + 1 > 0 THEN Width(strip) - Padding + 1 ELSE 0

\* lines 79-81: the crop (x, 0, x + 8, height) as an array of height rows and
\* 8 columns, thresholded
Window(strip, x) ==
    [r \in 0 .. TextHeight - 1 |->
        [c \in 0 .. MatrixSize - 1 |->
            IF strip[x + c][r] > Threshold THEN 1 ELSE 0]]

\* lines 83-84: the pause frame
WithPause(fs) == IF fs # << >> THEN Append(fs, fs[Len(fs)]) ELSE fs

\* text_to_frames(text), strip being the resized rendering of the text
text_to_frames(text, strip) ==
    IF text = "" THEN << >>
    ELSE WithPause([i \in 1 .. WindowCount(strip) |-> Window(strip, i - 1)])

\* the empty text is not rendered at all (line 56)
TextInputs ==
    { [text |-> "", strip |-> << >>] }
    \cup [ text : {"A", "Hello"}, strip : Strips ]

InitText ==
    /\ SessionInit
    /\ ScrollInit
    /\ input \in TextInputs
    /\ call = NoCall

CallText ==
    /\ call = NoCall
    /\ call' = [fn |-> "text_to_frames", args |-> input,
                out |-> text_to_frames(input.text, input.strip)]
    /\ UNCHANGED << session, scroll, input >>

NextText == CallText

SpecText == InitText /\ [][NextText]_vars

-----------------------------------------------------------------------------
(* main(), lines 155-283.  Streamlit runs main() from the top on every     *)
(* interaction; at most one button is pressed in a run.  A run, or a call  *)
(* of get_serial, is one action up to a time.sleep: a run of Connect /     *)
(* Reconnect that has opened its object waits at line 207 (Connect, then   *)
(* ConnectEnd), a run of Send Text waits at line 235 after every frame     *)
(* (SendText, then a ScrollStep per further frame), and a call of          *)
(* get_serial that has stored its object waits at line 19 (get_serial,     *)
(* then get_serialEnd).  Nothing in app.py keeps another run or call from  *)
(* starting while one waits, so they interleave at these points: any       *)
(* number of them may be waiting at a time.                                *)

\* the sidebar settings (lines 172-188) that the session specifications
\* try: the defaults, and another port at another baud rate of the list
Settings == { << "COM12", 115200 >>, << "COM3", 9600 >> }

\* ser.is_open of what session_state.ser holds (False stands in for None)
IsOpen(s) == s # None /\ s \in DOMAIN serials /\ serials[s] = "open"

\* lines 193-198: the old object, if it is open, is closed; close() raising is
\* swallowed and leaves the object as it was
ClosedOld(closeRaises) ==
    IF ser # None /\ IsOpen(ser) /\ ~closeRaises
    THEN [serials EXCEPT ![ser] = "closed"]
    ELSE serials

\* (faulty variant of OnOpenError) line 211 forgotten: connected keeps its value
StaleOnOpenError == [ser |-> None, connected |-> connected]

\* lines 209-211: what the handler of the try leaves in the session
OnOpenError == [ser |-> None, connected |-> FALSE]

\* Connect / Reconnect pressed with one of settings in the sidebar, lines
\* 172-207: the stored object is closed,
\* serial.Serial(...) is called; if it raises, the handler of lines 209-212
\* runs and the run is over; if it returns, lines 203-206 store the object,
\* the port, the baud and connected, and the run waits in the sleep of 207
Connect(settings) ==
    /\ Len(serials) < MaxAttempts
    /\ \E << p, b >> \in settings, opens \in BOOLEAN,
          closeRaises \in (IF IsOpen(ser) THEN BOOLEAN ELSE {FALSE}) :
          /\ unclosed' = IF ser # None /\ IsOpen(ser) /\ closeRaises
                         THEN unclosed \cup {ser} ELSE unclosed
          /\ IF opens
             THEN /\ serials' = Append(ClosedOld(closeRaises), "open")
                  /\ ser' = Len(serials) + 1
                  /\ port' = p
                  /\ baud' = b
                  /\ connected' = TRUE
                  /\ waiting' = waiting \cup
                        { [id |-> Len(serials) + 1,
                           before |-> [port |-> port, baud |-> baud],
                           chosen |-> [port |-> p, baud |-> b]] }
             ELSE /\ serials' = Append(ClosedOld(closeRaises), "failed")
                  /\ ser' = OnOpenError.ser
                  /\ connected' = OnOpenError.connected
                  /\ UNCHANGED << port, baud, waiting >>
          /\ call' = [fn |-> "main", button |-> "Connect / Reconnect",
                      outcome |-> IF opens THEN "waiting" ELSE "open_raised",
                      id |-> Len(serials) + 1,
                      before |-> [port |-> port, baud |-> baud],
                      chosen |-> [port |-> p, baud |-> b]]
    /\ UNCHANGED << orphaned, keyed, unkeyed, parked, scrolls, input >>

\* a run of Connect / Reconnect leaves the sleep of line 207: either the
\* sleep and the report of line 208 return, and the session stays as it is,
\* or one of them raises an Exception and the handler of lines 209-212 sets
\* ser to None and connected to False, whatever the session holds by then
ConnectEnd ==
    /\ \E w \in waiting, raises \in BOOLEAN :
          /\ waiting' = waiting \ {w}
          /\ IF raises
             THEN /\ ser' = OnOpenError.ser
                  /\ connected' = OnOpenError.connected
                  /\ orphaned' = IF IsOpen(ser) THEN orphaned \cup {ser}
                                 ELSE orphaned
             ELSE UNCHANGED << ser, connected, orphaned >>
          /\ call' = [fn |-> "main", button |-> "Connect / Reconnect",
                      outcome |-> IF raises THEN "then_raised" ELSE "opened",
                      id |-> w.id, before |-> w.before, chosen |-> w.chosen]
    /\ UNCHANGED << port, baud, serials, unclosed, keyed, unkeyed, parked,
                    scrolls, input >>

\* the Serial objects get_serial has stored
KeyedIds == { keyed[k] : k \in DOMAIN keyed }

\* get_serial(port, baud), lines 11-19 and 23: with an object stored under
\* the key of the port and baud, that object is returned (line 23), whether
\* or not the call that stored it is still in its sleep; without one,
\* serial.Serial(...) is called: if it raises, the error is reported and None
\* returned (lines 20-22); if it returns, line 18 stores the object under the
\* key and the call waits in the sleep of line 19
get_serial ==
    /\ \E << p, b >> \in Settings :
          IF << p, b >> \in DOMAIN keyed
          THEN /\ call' = [fn |-> "get_serial", args |-> << p, b >>,
                           stored |-> TRUE, outcome |-> "stored",
                           out |-> keyed[<< p, b >>], errors |-> 0]
               /\ UNCHANGED << serials, keyed, unkeyed, parked >>
          ELSE /\ Len(serials) < MaxAttempts
               /\ \E opens \in BOOLEAN :
                     /\ call' = [fn |-> "get_serial", args |-> << p, b >>,
                                 stored |-> FALSE,
                                 outcome |-> IF opens THEN "waiting"
                                             ELSE "open_raised",
                                 out |-> None,
                                 errors |-> IF opens THEN 0 ELSE 1]
                     /\ IF opens
                        THEN /\ serials' = Append(serials, "open")
                             /\ keyed' = (<< p, b >> :> (Len(serials) + 1)) @@ keyed
                             /\ parked' = parked \cup
                                   { [key |-> << p, b >>, id |-> Len(serials) + 1] }
                             /\ UNCHANGED unkeyed
                        ELSE /\ serials' = Append(serials, "failed")
                             /\ unkeyed' = unkeyed \cup {Len(serials) + 1}
                             /\ UNCHANGED << keyed, parked >>
    /\ UNCHANGED << ser, connected, port, baud, unclosed, orphaned, waiting,
                    scrolls, input >>

\* a call of get_serial leaves the sleep of line 19: either the sleep
\* returns and line 23 returns what is stored under the key, or it raises
\* an Exception, which lines 20-22 report, returning None; the object stays
\* stored under the key
get_serialEnd ==
    /\ \E c \in parked, raises \in BOOLEAN :
          /\ parked' = parked \ {c}
          /\ call' = [fn |-> "get_serial", args |-> c.key, stored |-> FALSE,
                      outcome |-> IF raises THEN "then_raised" ELSE "opened",
                      out |-> IF raises THEN None ELSE keyed[c.key],
                      errors |-> IF raises THEN 1 ELSE 0]
    /\ UNCHANGED << ser, connected, port, baud, serials, unclosed, orphaned,
                    waiting, keyed, unkeyed, scrolls, input >>

\* (faulty variant of MainReachesTabs) lines 217-219 missing
AlwaysReachesTabs == TRUE

\* lines 214-219: main() goes on to the tabs only with a handle and connected
MainReachesTabs == ser # None /\ connected

\* lines 214-217: what a run reads of the session on its way to the tabs
Gate == [ser |-> ser, connected |-> connected]

\* a run with no button pressed (a widget changed): nothing is sent
Rerun ==
    /\ call' = [fn |-> "main", button |-> "none", tabs |-> MainReachesTabs]
    /\ UNCHANGED << session, scroll, input >>

\* what is recorded of a send_frame made by a run of main() that read gate
\* at lines 214-217: the handle it sends on is the local ser of line 214
SendRecord(button, gate, out) ==
    [fn |-> "main", button |-> button, ser |-> gate.ser,
     is_open |-> IsOpen(gate.ser), gate |-> gate, out |-> out]

\* the grids of Update Matrix that the session specifications try
ProbeMatrices8 ==
    { MatOf(MatrixSize, MatrixSize, {}, 1), MatOf(MatrixSize, MatrixSize, {<<0, 0>>}, 1) }

\* Update Matrix pressed on one of grids, lines 240-249
UpdateMatrix(grids) ==
    /\ MainReachesTabs
    /\ \E matrix \in grids, writeRaises \in BOOLEAN :
          \E out \in { send_frame(ser, IsOpen(ser), matrix, writeRaises) } :
              call' = SendRecord("Update Matrix", Gate, out)
    /\ UNCHANGED << session, scroll, input >>

\* the canvases of Send Drawing that the session specifications try
ProbeImages ==
    { GrayOf({}, White, White), GrayOf({<<7, 7>>}, 0, White) }

\* Send Drawing pressed on one of canvases, lines 269-283
SendDrawing(canvases) ==
    /\ MainReachesTabs
    /\ \E arr \in canvases, writeRaises \in BOOLEAN :
          \E out \in { send_frame(ser, IsOpen(ser), image_to_8x8(arr), writeRaises) } :
              call' = SendRecord("Send Drawing", Gate, out)
    /\ UNCHANGED << session, scroll, input >>

\* the locals of a run of Send Text that read gate at lines 214-217 and made
\* fs at line 232, before the first turn of its loop
NewRun(gate, fs) ==
    [gate |-> gate, frames |-> fs, idx |-> 0, attempts |-> << >>, errors |-> 0]

\* the locals of run r after the send_frame of line 234 did out on its next
\* frame, with what is noted of that call: the frame, whether the handle was
\* open, what ser.write got and whether it returned; an exception out of
\* send_frame leaves idx where it was
AfterTurn(r, out) ==
    [r EXCEPT !.idx = IF out.raised # "none" THEN r.idx ELSE r.idx + 1,
              !.attempts = Append(r.attempts,
                  [frame |-> r.idx + 1, is_open |-> IsOpen(r.gate.ser),
                   writes |-> out.writes, sent |-> out.sent]),
              !.errors = r.errors + out.errors]

\* whether a run whose send_frame did out and left it with the locals r is
\* over: an exception out of send_frame ends it, and after its last frame
\* nothing but the sleep of line 235 is left of it
RunOver(r, out) == out.raised # "none" \/ r.idx = Len(r.frames)

\* no send_frame made: nothing raised, written or reported
NoSend == [raised |-> "none", writes |-> << >>, sent |-> FALSE, errors |-> 0]

\* what is recorded of a step of a run of Send Text: the send_frame it made,
\* if any, the locals r it is left with, and whether the run is over
ScrollRecord(r, out, done) ==
    [fn |-> "main", button |-> "Send Text", ser |-> r.gate.ser,
     is_open |-> IsOpen(r.gate.ser), gate |-> r.gate, out |-> out,
     run |-> r, done |-> done]

\* Send Text pressed, lines 214-235: the gate is passed and the frames are
\* made; without frames the run is over; with frames, the first is sent on
\* the local ser of line 214 and the run waits in the sleep of line 235,
\* beside the runs already there
SendText(inputs) ==
    /\ MainReachesTabs
    /\ \E i \in inputs :
          \E fs \in { text_to_frames(i.text, i.strip) } :
             IF fs = << >>
             THEN /\ call' = ScrollRecord(NewRun(Gate, fs), NoSend, TRUE)
                  /\ UNCHANGED scrolls
             ELSE /\ BagCardinality(scrolls) < MaxScrolls
                  /\ \E writeRaises \in BOOLEAN :
                        \E out \in { send_frame(ser, IsOpen(ser), fs[1], writeRaises) } :
                           \E r \in { AfterTurn(NewRun(Gate, fs), out) } :
                              /\ scrolls' = IF RunOver(r, out) THEN scrolls
                                            ELSE scrolls (+) SetToBag({r})
                              /\ call' = ScrollRecord(r, out, RunOver(r, out))
    /\ UNCHANGED << session, input >>

\* a run of Send Text leaves the sleep of line 235 and takes the next turn
\* of its loop, lines 233-235, sending its next frame on the local ser of
\* line 214, whatever the session holds by then
ScrollStep ==
    /\ \E q \in BagToSet(scrolls), writeRaises \in BOOLEAN :
          \E out \in { send_frame(q.gate.ser, IsOpen(q.gate.ser),
                                  q.frames[q.idx + 1], writeRaises) } :
             \E r \in { AfterTurn(q, out) } :
                /\ scrolls' = IF RunOver(r, out)
                              THEN scrolls (-) SetToBag({q})
                              ELSE (scrolls (-) SetToBag({q})) (+) SetToBag({r})
                /\ call' = ScrollRecord(r, out, RunOver(r, out))
    /\ UNCHANGED << session, input >>

\* the matrix of another shape that the session specifications try
ProbeMisshapen ==
    { MatOf(MatrixSize, MatrixSize + 1, {}, 1) }

\* the Serial objects the program has made, open or closed
Objects == { i \in DOMAIN serials : serials[i] # "failed" }

\* send_frame called with one of handles (None, or a Serial object the
\* program has made) and one of matrices: the function's own contract,
\* beyond the calls main() makes
DirectSendFrame(handles, matrices) ==
    /\ \E s \in handles, matrix \in matrices :
       \E writeRaises \in (IF SerialUsable(s, IsOpen(s)) /\ ShapeAccepted(matrix)
                            THEN BOOLEAN ELSE {FALSE}) :
          call' = [fn |-> "send_frame",
                   args |-> [ser |-> s, is_open |-> IsOpen(s),
                             shape |-> Shape(matrix)],
                   out |-> send_frame(s, IsOpen(s), matrix, writeRaises)]
    /\ UNCHANGED << session, scroll, input >>

\* the texts of Send Text that the session specifications try: the empty
\* one, and one whose strip is 8 wide with ink in its first column
ProbeTexts ==
    { [text |-> "", strip |-> << >>],
      [text |-> "A",
       strip |-> [x \in 0 .. Padding - 1 |->
                     IF x = 0 THEN [y \in 0 .. TextHeight - 1 |-> 255]
                     ELSE BlankColumn]] }

Init ==
    /\ SessionInit
    /\ ScrollInit
    /\ input = << >>
    /\ call = NoCall

Next ==
    \/ Connect(Settings)
    \/ ConnectEnd
    \/ Rerun
    \/ UpdateMatrix(ProbeMatrices8)
    \/ SendDrawing(ProbeImages)
    \/ SendText(ProbeTexts)
    \/ ScrollStep
    \/ DirectSendFrame({None} \cup Objects, ProbeMatrices8 \cup ProbeMisshapen)
    \/ get_serial
    \/ get_serialEnd

Spec == Init /\ [][Next]_vars

-----------------------------------------------------------------------------
(* SpecConnect: the session as Connect / Reconnect and get_serial make it, *)
(* on every setting of Settings.  No other action writes the session.      *)

NextConnect ==
    \/ Connect(Settings)
    \/ ConnectEnd
    \/ get_serial
    \/ get_serialEnd

SpecConnect == Init /\ [][NextConnect]_vars

-----------------------------------------------------------------------------
(* SpecSend: Connect / Reconnect, pressed with the default settings, and   *)
(* every send: the three buttons, in runs that interleave with the runs   *)
(* of Connect / Reconnect and with each other, and send_frame without a   *)
(* handle, which no run of main() calls it with.  A send reads neither    *)
(* the port nor the baud of the session, and get_serial writes nothing    *)
(* that a run of main() reads.                                            *)

DefaultSettings == { << "COM12", 115200 >> }

\* the grid and the canvas with one cell set
SendMatrices == { MatOf(MatrixSize, MatrixSize, {<<0, 0>>}, 1) }
SendImages == { GrayOf({<<7, 7>>}, 0, White) }

NextSend ==
    \/ Connect(DefaultSettings)
    \/ ConnectEnd
    \/ UpdateMatrix(SendMatrices)
    \/ SendDrawing(SendImages)
    \/ SendText(ProbeTexts)
    \/ ScrollStep
    \/ DirectSendFrame({None}, SendMatrices \cup ProbeMisshapen)

SpecSend == Init /\ [][NextSend]_vars

-----------------------------------------------------------------------------
(* SpecScroll: Send Text pressed, any number of times and while earlier    *)
(* runs of it are in their loop, on longer texts than SpecSend tries, from *)
(* the state one successful Connect leaves; the handle stays open.         *)

\* the strip of width w + 8 with ink in column 7 alone: no two of its
\* windows are alike
ScrollStrip(w) ==
    [x \in 0 .. w + Padding - 1 |->
        IF x = Padding - 1 THEN [y \in 0 .. TextHeight - 1 |-> White]
        ELSE BlankColumn]

\* the text inputs the scroll is followed on: the empty text, and for every
\* measured width a text whose strip is ScrollStrip
ScrollInputs ==
    { [text |-> "", strip |-> << >>] }
    \cup { [text |-> "A", strip |-> ScrollStrip(w)] : w \in 0 .. MaxTextWidth }

InitScroll ==
    /\ ser = 1
    /\ connected = TRUE
    /\ port = "COM12"
    /\ baud = 115200
    /\ serials = << "open" >>
    /\ unclosed = {}
    /\ orphaned = {}
    /\ waiting = {}
    /\ keyed = << >>
    /\ unkeyed = {}
    /\ parked = {}
    /\ ScrollInit
    /\ input \in ScrollInputs
    /\ call = NoCall

NextScroll ==
    \/ SendText({input})
    \/ ScrollStep

SpecScroll == InitScroll /\ [][NextScroll]_vars

-----------------------------------------------------------------------------
(* Properties of send_frame, checked under SpecSendFrame. *)

SendFrameCalled == call.fn = "send_frame"

\* whether every cell of m is 0 or 1
IsBinary(m) == \A r \in DOMAIN m : \A c \in DOMAIN m[r] : m[r][c] \in {0, 1}

\* bit i of byte b
Bit(b, i) == (b \div 2 ^ i) % 2

\* the inverse bit-unpack of a 9-byte frame: cell(r,c) = bit 7-c of byte 1+r
Decode(data) ==
    [r \in 0 .. MatrixSize - 1 |->
        [c \in 0 .. MatrixSize - 1 |-> Bit(data[r + 2], 7 - c)]]

\* C1: with an open handle, send_frame hands ser.write exactly 9 bytes for an
\* 8x8 binary matrix: byte 0 is 0xAA and bit 7-c of byte 1+r is set iff
\* cell(r,c) is 1, rows top to bottom; an all-zero matrix gives eight 0x00
\* and an all-one matrix eight 0xFF.
C1_FrameLayout ==
    ( /\ SendFrameCalled
      /\ SerialUsable(call.args.ser, call.args.is_open)
      /\ ShapeAccepted(call.args.matrix)
      /\ IsBinary(call.args.matrix) )
    => /\ Len(call.out.writes) = 1
       /\ LET data == call.out.writes[1]
              m    == call.args.matrix
          IN  /\ Len(data) = 9
              /\ data[1] = 170
              /\ \A r \in 0 .. 7 : \A c \in 0 .. 7 :
                    (Bit(data[r + 2], 7 - c) = 1) <=> (m[r][c] = 1)
              /\ \A r \in 0 .. 7 : data[r + 2] \in 0 .. 255
              /\ (\A r \in 0 .. 7 : \A c \in 0 .. 7 : m[r][c] = 0)
                    => \A r \in 0 .. 7 : data[r + 2] = 0
              /\ (\A r \in 0 .. 7 : \A c \in 0 .. 7 : m[r][c] = 1)
                    => \A r \in 0 .. 7 : data[r + 2] = 255

\* C1's case: only cell(0,0) lit, and the frame is AA 80 00 00 00 00 00 00 00.
C1_Witness ==
    /\ SendFrameCalled
    /\ SerialUsable(call.args.ser, call.args.is_open)
    /\ call.args.matrix = MatOf(8, 8, {<<0, 0>>}, 1)
    /\ call.out.writes = << << 170, 128, 0, 0, 0, 0, 0, 0, 0 >> >>

\* C2: round trip: unpacking the frame that send_frame hands the transport
\* for an 8x8 binary matrix gives the matrix back (so two matrices with the
\* same frame are the same matrix).
C2_RoundTrip ==
    ( /\ SendFrameCalled
      /\ SerialUsable(call.args.ser, call.args.is_open)
      /\ ShapeAccepted(call.args.matrix)
      /\ IsBinary(call.args.matrix) )
    => /\ call.out.writes # << >>
       /\ Decode(call.out.writes[1]) = call.args.matrix

\* C2's case: a frame was sent for a matrix with several lit cells in a row
\* that is not its own mirror image, and unpacks to it.
C2_Witness ==
    /\ SendFrameCalled
    /\ call.out.sent
    /\ call.args.matrix[3] = [c \in 0 .. 7 |-> IF c \in {0, 1, 6} THEN 1 ELSE 0]
    /\ Decode(call.out.writes[1]) = call.args.matrix

\* C3 as stated: send_frame raises the shape error for every input that is
\* not 8x8.
C3_Original ==
    (SendFrameCalled /\ Shape(call.args.matrix) # << 8, 8 >>)
    => call.out.raised = "ValueError"

\* C3 as amended: with a handle that is not None and is open, send_frame
\* raises ValueError for every input that is not 8x8, and writes nothing;
\* with None or a closed handle it returns before it looks at the matrix.
C3_ShapeRejected ==
    (SendFrameCalled /\ Shape(call.args.matrix) # << 8, 8 >>)
    => /\ call.out.writes = << >>
       /\ IF call.args.ser # None /\ call.args.is_open
          THEN call.out.raised = "ValueError"
          ELSE call.out.raised = "none" /\ call.out.errors = 1

\* C3's case: an 8-row, 9-column matrix on an open handle is rejected.
C3_Witness ==
    /\ SendFrameCalled
    /\ call.args.ser # None /\ call.args.is_open
    /\ Shape(call.args.matrix) = << 8, 9 >>
    /\ call.out.raised = "ValueError"

\* C6: send_frame calls ser.write at most once, with one complete 9-byte
\* frame (header and all eight row bytes), and not at all when it rejects
\* the matrix for its shape.
C6_AtomicFrame ==
    SendFrameCalled
    => /\ Len(call.out.writes) <= 1
       /\ \A i \in DOMAIN call.out.writes :
             /\ Len(call.out.writes[i]) = 9
             /\ call.out.writes[i][1] = 170
             /\ \A r \in 0 .. 7 :
                   call.out.writes[i][r + 2] = RowByte(call.args.matrix[r])
       /\ call.out.raised = "ValueError" => call.out.writes = << >>
       /\ call.out.sent => Len(call.out.writes) = 1

\* C6's case: the write raised, and what it had been given was the whole
\* frame of a matrix with lit cells.
C6_Witness ==
    /\ SendFrameCalled
    /\ ~call.out.sent
    /\ Len(call.out.writes) = 1
    /\ Len(call.out.writes[1]) = 9
    /\ call.out.writes[1][9] = 255


-----------------------------------------------------------------------------
(* Properties of downsample_16_to_8, checked under SpecDownsample. *)

\* C4: for a 16x16 binary matrix m, downsample(m) is an 8x8 matrix of 0s and
\* 1s, and its cell (r,c) is 1 iff one of m[2r][2c], m[2r][2c+1],
\* m[2r+1][2c], m[2r+1][2c+1] is 1.
C4_BlockOr ==
    call.fn = "downsample_16_to_8"
    => LET m == call.args.mat16
       IN  /\ Shape(call.out) = << 8, 8 >>
           /\ \A r \in 0 .. 7 : \A c \in 0 .. 7 :
                 /\ call.out[r][c] \in {0, 1}
                 /\ (call.out[r][c] = 1)
                       <=> \/ m[2 * r][2 * c] = 1
                           \/ m[2 * r][2 * c + 1] = 1
                           \/ m[2 * r + 1][2 * c] = 1
                           \/ m[2 * r + 1][2 * c + 1] = 1

\* C4's case: the one lit cell, (7,10), is in the bottom row of block (3,5),
\* and only cell (3,5) of the result is lit.
C4_Witness ==
    /\ call.fn = "downsample_16_to_8"
    /\ call.args.mat16 = MatOf(16, 16, {<<7, 10>>}, 1)
    /\ call.out = MatOf(8, 8, {<<3, 5>>}, 1)

-----------------------------------------------------------------------------
(* Properties of text_to_frames, checked under SpecText. *)

\* C7: the empty text gives no frame; a text whose strip is W pixels wide
\* gives W - 6 frames: frame x, 0 <= x <= W - 8, is strip columns x .. x+7
\* with a cell lit iff its intensity is over 128, and the last frame, the
\* pause, equals the one before it.
C7_TextFrames ==
    call.fn = "text_to_frames"
    => IF call.args.text = ""
       THEN call.out = << >>
       ELSE LET W     == Cardinality(DOMAIN call.args.strip)
                strip == call.args.strip
            IN  /\ Len(call.out) = W - 6
                /\ \A x \in 0 .. W - 8 :
                      /\ Shape(call.out[x + 1]) = << 8, 8 >>
                      /\ \A r \in 0 .. 7 : \A c \in 0 .. 7 :
                            call.out[x + 1][r][c]
                                = IF strip[x + c][r] > 128 THEN 1 ELSE 0
                /\ call.out[W - 6] = call.out[W - 7]

\* C7's case: a text measured 2 pixels wide, so a strip of 10, whose last
\* column holds ink: 3 windows and the pause, the pause lit in its last column.
C7_Witness ==
    /\ call.fn = "text_to_frames"
    /\ call.args.text = "Hello"
    /\ Cardinality(DOMAIN call.args.strip) = 10
    /\ call.args.strip[9][5] = 254
    /\ Len(call.out) = 4
    /\ call.out[4] = call.out[3]
    /\ call.out[4][5][7] = 1
    /\ call.out[2][5][7] = 0

-----------------------------------------------------------------------------
(* Properties of image_to_8x8, checked under SpecImage. *)

\* C8: after the resize, a cell of the result is 1 iff its intensity v is at
\* most 178 (v / 255 < 0.7), so a white image gives the all-zero matrix and
\* a black one the all-one matrix.
C8_InkThreshold ==
    call.fn = "image_to_8x8"
    => /\ \A r \in 0 .. 7 : \A c \in 0 .. 7 :
             call.out[r][c] = IF call.args.arr[r][c] <= 178 THEN 1 ELSE 0
       /\ (\A r \in 0 .. 7 : \A c \in 0 .. 7 : call.args.arr[r][c] = 255)
             => call.out = MatOf(8, 8, {}, 1)
       /\ (\A r \in 0 .. 7 : \A c \in 0 .. 7 : call.args.arr[r][c] = 0)
             => call.out = MatOf(8, 8, {}, 0)

\* C8's case: a white image with intensity 178 at cell (2,3): that cell alone
\* is lit.
C8_Witness ==
    /\ call.fn = "image_to_8x8"
    /\ call.args.arr = GrayOf({<<2, 3>>}, 178, 255)
    /\ call.out = MatOf(8, 8, {<<2, 3>>}, 1)


-----------------------------------------------------------------------------
(* Properties of the scroll loop, checked under SpecSend, and on longer     *)
(* texts, with the handle open throughout, under SpecScroll.               *)

\* the call on record is a step of a run of Send Text
SentText == call.fn = "main" /\ call.button = "Send Text"

\* the runs of Send Text in their loop, and the one whose step is on record
RunsOnRecord ==
    BagToSet(scrolls) \cup (IF SentText THEN {call.run} ELSE {})

\* what every run of Send Text has of a frame it has handled: the frame's
\* place, and one ser.write that got the whole frame
WriteAttempted(r, k) ==
    /\ r.attempts[k].frame = k
    /\ Len(r.attempts[k].writes) = 1
    /\ Len(r.attempts[k].writes[1]) = 9
    /\ r.attempts[k].writes[1][1] = 170
    /\ Decode(r.attempts[k].writes[1]) = r.frames[k]

\* a step of a run of Send Text raises nothing; the run is over only after
\* its last frame, and until then it stays in its loop
LoopGoesOn ==
    /\ SentText => call.out.raised = "none"
    /\ (SentText /\ call.done) => call.run.idx = Len(call.run.frames)
    /\ (SentText /\ ~call.done) => call.run \in BagToSet(scrolls)

LongScrollEnded ==
    /\ SentText
    /\ call.done
    /\ Len(call.run.frames) = 4
    /\ Len(call.run.attempts) = 4
    /\ ~call.run.attempts[1].sent /\ call.run.attempts[2].sent
    /\ ~call.run.attempts[3].sent /\ call.run.attempts[4].sent
    /\ call.run.errors = 2

-----------------------------------------------------------------------------
(* Properties of the session, checked under SpecSend and SpecConnect. *)

SendButtons == {"Send Text", "Update Matrix", "Send Drawing"}

\* the call on record is a run of main() with a button that sends pressed
MainSent == call.fn = "main" /\ call.button \in SendButtons

\* the call on record is a run of main() that called send_frame (a run of
\* Send Text on the empty text calls nothing)
MainCalledSendFrame ==
    MainSent /\ (call.button = "Send Text" => call.run.frames # << >>)

\* send_frame on a handle that is None or not open makes no write, raises
\* nothing, reports one error and returns, in a run of main() and outside
\* one; and what it writes, it writes on an open handle
GuardedSendFrame ==
    /\ call.fn = "send_frame"
       => /\ (call.args.ser = None \/ ~call.args.is_open)
                => call.out = [raised |-> "none", writes |-> << >>,
                               sent |-> FALSE, errors |-> 1]
          /\ call.out.writes # << >>
                => call.args.ser # None /\ call.args.is_open
    /\ MainCalledSendFrame
       => /\ (call.ser = None \/ ~call.is_open)
                => call.out = [raised |-> "none", writes |-> << >>,
                               sent |-> FALSE, errors |-> 1]
          /\ call.out.writes # << >>
                => call.ser # None /\ call.is_open

\* C9 as the specification words it: no bytes reach the transport while it
\* is disconnected: send_frame is guarded, and whenever a run of main()
\* sends, session_state.ser is not None and connected is true.
C9_Original ==
    /\ GuardedSendFrame
    /\ MainSent
          => /\ ser # None /\ connected
             /\ call.out.writes # << >> => call.is_open
    /\ scrolls # EmptyBag => ser # None /\ connected

\* C9: nothing is written on a handle that is None or not open: send_frame
\* then makes no write, raises nothing, reports one error and returns,
\* whatever the matrix; and a run of main() gets to a send only if it read a
\* handle and connected true at lines 214-217, and sends on the handle it
\* read there, whatever the session holds by the time of the send.
C9_NoWriteWhenDisconnected ==
    /\ GuardedSendFrame
    /\ MainSent
          => /\ call.gate.ser # None /\ call.gate.connected
             /\ call.ser = call.gate.ser
             /\ call.out.writes # << >> => call.is_open
    /\ \A r \in BagToSet(scrolls) : r.gate.ser # None /\ r.gate.connected
    /\ (MainSent /\ call.button # "Send Text") => call.gate = Gate

\* C9's case: a run of Send Text passed the gate while a run of Connect /
\* Reconnect was in its sleep; the handler of that run has since set ser to
\* None and connected to false, and the scroll writes a frame on the handle
\* it read, which is still open.
C9_Witness ==
    /\ ser = None /\ ~connected
    /\ MainSent /\ call.button = "Send Text"
    /\ call.ser = 1 /\ call.is_open
    /\ Len(call.out.writes) = 1
    /\ call.out.sent

\* the attempts of Connect / Reconnect among the serial.Serial(...) calls
ConnectIds == DOMAIN serials \ (KeyedIds \cup unkeyed)

\* the most recent attempt of Connect / Reconnect, None before the first
LastAttempt ==
    IF ConnectIds = {} THEN None
    ELSE CHOOSE i \in ConnectIds : \A j \in ConnectIds : j <= i

\* the call on record is a run of Connect / Reconnect that came to outcome
ConnectEnded(outcome) ==
    /\ call.fn = "main"
    /\ call.button = "Connect / Reconnect"
    /\ call.outcome = outcome

\* connected is true iff session_state.ser is the handle the most recent
\* attempt opened
ConnectedIffLatest ==
    connected <=> /\ LastAttempt # None
                  /\ serials[LastAttempt] = "open"
                  /\ ser = LastAttempt

\* C10 as the specification words it: connected is true iff
\* session_state.ser is the handle the most recent attempt opened; an open
\* object of Connect / Reconnect is the one the session holds, unless its
\* close() raised; and an attempt that failed (the handler of line 209 ran)
\* leaves ser None, connected false and the stored port and baud as it
\* found them.
C10_Original ==
    /\ ConnectedIffLatest
    /\ \A i \in ConnectIds :
          serials[i] = "open" => (i = ser \/ i \in unclosed)
    /\ (ConnectEnded("open_raised") \/ ConnectEnded("then_raised"))
          => /\ ser = None
             /\ ~connected
             /\ port = call.before.port
             /\ baud = call.before.baud

\* C10: in every state, the sleep of line 207 included, connected is true
\* iff session_state.ser is the handle the most recent attempt opened; an
\* open object of Connect / Reconnect is the one the session holds, unless
\* its close() raised or the handler of line 209 dropped it; an attempt
\* whose serial.Serial(...) raised leaves ser None, connected false and the
\* stored port and baud as it found them; an attempt whose try raised after
\* serial.Serial(...) returned leaves ser None and connected false, with
\* the port and baud that it, or an attempt started since, has stored.
C10_ConnectionState ==
    /\ ConnectedIffLatest
    /\ \A i \in ConnectIds :
          serials[i] = "open" => (i = ser \/ i \in unclosed \/ i \in orphaned)
    /\ ser \notin orphaned
    /\ \A w \in waiting : w.id \in ConnectIds /\ serials[w.id] # "failed"
    /\ ConnectEnded("waiting")
          => /\ ser = call.id
             /\ connected
             /\ port = call.chosen.port
             /\ baud = call.chosen.baud
    /\ ConnectEnded("open_raised")
          => /\ ser = None
             /\ ~connected
             /\ port = call.before.port
             /\ baud = call.before.baud
    /\ ConnectEnded("then_raised")
          => /\ ser = None
             /\ ~connected
             /\ call.id = LastAttempt
                   => /\ port = call.chosen.port
                      /\ baud = call.chosen.baud
                      /\ serials[call.id] = "open"
                      /\ call.id \in orphaned

\* C10's case: a first attempt opened COM12 at 115200 and ended; a second,
\* for COM3 at 9600, closed that handle, opened its own, and its try raised
\* afterwards: the session holds no handle, the new object was never
\* closed, and the port and baud of the second attempt are stored.
C10_Witness ==
    /\ serials = << "closed", "open" >>
    /\ ConnectEnded("then_raised")
    /\ call.id = 2
    /\ call.before = [port |-> "COM12", baud |-> 115200]
    /\ orphaned = {2}
    /\ waiting = {}
    /\ ser = None /\ ~connected
    /\ port = "COM3" /\ baud = 9600

=============================================================================
